---------------------------- MODULE Spec2Model ----------------------------
(* Model of scripts/discretize_arena.py, function split_arena: one call of *)
(* split_arena(arena_size) run statement by statement.  A call ends either *)
(* by returning (blocks, remaining) or by raising a Python exception.      *)
EXTENDS Integers, Sequences, FiniteSets, TLC

VARIABLES arena_size, pc, exc, blocks, remaining, partition, workables,
          workable, distribution_sz, mid, dist, idx_tree, lvl

vars == <<arena_size, pc, exc, blocks, remaining, partition, workables,
          workable, distribution_sz, mid, dist, idx_tree, lvl>>

(* ------------------------------ bounds -------------------------------- *)
\* arena sizes 1 .. MaxArena and 0 down to -MaxNegative are all tried
MaxArena == 400
MaxNegative == 3
\* the arena sizes of the documented scenarios, beyond MaxArena
Scenarios == {1000, 2048, 4096, 1048576}
ArenaInputs == ((0 - MaxNegative) .. MaxArena) \cup Scenarios

(* ------------------------- pure computations -------------------------- *)
BLOCK_SIZES == <<1024, 512, 256, 128, 64, 32>>

BlockSet == {BLOCK_SIZES[i] : i \in 1 .. Len(BLOCK_SIZES)}

\* min(seq) of a non-empty sequence of integers
SeqMin(s) == CHOOSE m \in {s[i] : i \in 1 .. Len(s)} :
                 \A j \in 1 .. Len(s) : m <= s[j]

\* max(seq, default=0)
SeqMaxDefault0(s) ==
    IF s = <<>> THEN 0
    ELSE CHOOSE m \in {s[i] : i \in 1 .. Len(s)} :
             \A j \in 1 .. Len(s) : m >= s[j]

ValidArenaOrZero(a) == a >= 0
\* the condition of the assert that opens split_arena
ValidArena(a) == a > 0

\* dist_sz of one partition count
DistSz(a, p) ==
    SeqMaxDefault0(SelectSeq(BLOCK_SIZES, LAMBDA sz : sz <= (a \div p)))

\* the inner for loop: one dist_sz is added per size of tmp, the size is
\* kept while the cumulation fits the arena, the first overflow breaks
RECURSIVE Accept(_, _, _, _, _, _)
Accept(tmp, i, cumulation, lst, d, a) ==
    IF i > Len(tmp) THEN lst
    ELSE IF cumulation + d <= a
         THEN Accept(tmp, i + 1, cumulation + d, Append(lst, tmp[i]), d, a)
         ELSE lst

Members(a, d) ==
    Accept(SelectSeq(BLOCK_SIZES, LAMBDA sz : sz <= d), 1, 0, <<>>, d, a)

\* max(workables, key=len of the list): the first maximal element
RECURSIVE Best(_, _, _)
Best(ws, i, best) ==
    IF i > Len(ws) THEN best
    ELSE IF Len(ws[i][1]) > Len(best[1])
         THEN Best(ws, i + 1, ws[i])
         ELSE Best(ws, i + 1, best)

RECURSIVE BestLast(_, _, _)
BestLast(ws, i, best) ==
    IF i > Len(ws) THEN best
    ELSE IF Len(ws[i][1]) >= Len(best[1])
         THEN BestLast(ws, i + 1, ws[i])
         ELSE BestLast(ws, i + 1, best)

MaxByLenLast(ws) == BestLast(ws, 2, ws[1])
MaxByLen(ws) == Best(ws, 2, ws[1])

\* math.ceil(n / 2) for n >= 0
CeilHalf(n) == (n + 1) \div 2

\* seq[i] with Python's indexing: 0-based, a negative index counts from the end
PyIndex(s, i) == IF i >= 0 THEN s[i + 1] ELSE s[Len(s) + i + 1]

\* None is the empty sequence, an index i is <<i>>
None == <<>>

\* one level of idx_tree: (mid - dist or None, mid + dist or None)
ThisLvl(m, d, n) ==
    << IF (m - d) >= 0 THEN <<m - d>> ELSE None,
       IF (m + d) < n THEN <<m + d>> ELSE None >>

\* the divmod loop over BLOCK_SIZES: <<blocks, remaining>>
RECURSIVE Greedy(_, _, _)
Greedy(i, b, rem) ==
    IF i > Len(BLOCK_SIZES) THEN <<b, rem>>
    ELSE LET size == BLOCK_SIZES[i]
         IN  Greedy(i + 1,
                    [s \in (DOMAIN b) \cup {size} |->
                        IF s = size THEN rem \div size ELSE b[s]],
                    rem % size)

RECURSIVE SumBlocks(_, _)
SumBlocks(i, b) ==
    IF i > Len(BLOCK_SIZES) THEN 0
    ELSE BLOCK_SIZES[i] * b[BLOCK_SIZES[i]] + SumBlocks(i + 1, b)

(* ------------------------------- state -------------------------------- *)
EmptyDict == [s \in {} |-> 0]

Init ==
    /\ arena_size \in ArenaInputs
    /\ pc = "entry"
    /\ exc = "none"
    /\ blocks = EmptyDict
    /\ remaining = 0
    /\ partition = 0
    /\ workables = <<>>
    /\ workable = <<>>
    /\ distribution_sz = 0
    /\ mid = 0
    /\ dist = 0
    /\ idx_tree = <<>>
    /\ lvl = 0

Raise(e) == pc' = "raised" /\ exc' = e

\* the assert, the initialisation and the return of an arena below the
\* smallest block size
Entry ==
    /\ pc = "entry"
    /\ IF ~ValidArena(arena_size)
       THEN /\ Raise("AssertionError")
            /\ UNCHANGED <<blocks, remaining, partition>>
       ELSE /\ blocks' = EmptyDict
            /\ remaining' = arena_size
            /\ exc' = exc
            /\ IF arena_size < SeqMin(BLOCK_SIZES)
               THEN pc' = "returned" /\ partition' = partition
               ELSE pc' = "scan" /\ partition' = Len(BLOCK_SIZES)
    /\ UNCHANGED <<arena_size, workables, workable, distribution_sz, mid,
                   dist, idx_tree, lvl>>

\* one iteration of the loop over partition = len(BLOCK_SIZES) .. 1
ScanStep ==
    /\ pc = "scan"
    /\ LET dist_sz == DistSz(arena_size, partition)
       IN  IF dist_sz = 0
           THEN /\ pc' = "pick"
                /\ UNCHANGED <<workables, partition>>
           ELSE /\ workables' =
                      Append(workables, <<Members(arena_size, dist_sz), dist_sz>>)
                /\ IF partition = 1
                   THEN pc' = "pick" /\ partition' = partition
                   ELSE pc' = "scan" /\ partition' = partition - 1
    /\ UNCHANGED <<arena_size, exc, blocks, remaining, workable,
                   distribution_sz, mid, dist, idx_tree, lvl>>

\* the choice of the longest list, mid and the root of idx_tree
Pick ==
    /\ pc = "pick"
    /\ IF workables = <<>>
       THEN /\ Raise("ValueError")
            /\ UNCHANGED <<workable, distribution_sz, mid, dist, idx_tree>>
       ELSE LET best == MaxByLen(workables)
                m == (Len(best[1]) \div 2) - 1
            IN  /\ workable' = best[1]
                /\ distribution_sz' = best[2]
                /\ mid' = m
                /\ idx_tree' = << << <<m>>, None >> >>
                /\ dist' = 1
                /\ pc' = "tree"
                /\ exc' = exc
    /\ UNCHANGED <<arena_size, blocks, remaining, partition, workables, lvl>>

\* one iteration of the loop over dist = 1 .. ceil(len(workable)/2) - 1
TreeStep ==
    /\ pc = "tree"
    /\ IF dist < CeilHalf(Len(workable))
       THEN /\ idx_tree' = Append(idx_tree, ThisLvl(mid, dist, Len(workable)))
            /\ dist' = dist + 1
            /\ pc' = pc
       ELSE /\ pc' = "while"
            /\ UNCHANGED <<idx_tree, dist>>
    /\ UNCHANGED <<arena_size, exc, blocks, remaining, partition, workables,
                   workable, distribution_sz, mid, lvl>>

\* the test of the while loop; when it fails, the divmod loop over
\* BLOCK_SIZES, the final assert and the return
WhileTest ==
    /\ pc = "while"
    /\ IF remaining >= SeqMin(workable)
       THEN /\ pc' = "for"
            /\ lvl' = 1
            /\ UNCHANGED <<exc, blocks, remaining>>
       ELSE LET g == Greedy(1, blocks, remaining)
            IN  /\ blocks' = g[1]
                /\ remaining' = g[2]
                /\ lvl' = lvl
                /\ IF SumBlocks(1, g[1]) + g[2] = arena_size
                   THEN pc' = "returned" /\ exc' = exc
                   ELSE Raise("AssertionError")
    /\ UNCHANGED <<arena_size, partition, workables, workable,
                   distribution_sz, mid, dist, idx_tree>>

\* one iteration of the for loop over idx_tree:
\* blocks[ workable[lvl[0]] ] += 1
ForStep ==
    /\ pc = "for"
    /\ IF lvl > Len(idx_tree)
       THEN /\ pc' = "while"
            /\ UNCHANGED <<exc, blocks, lvl>>
       ELSE LET i == idx_tree[lvl][1]
            IN  IF i = None
                THEN Raise("TypeError") /\ UNCHANGED <<blocks, lvl>>
                ELSE LET key == PyIndex(workable, i[1])
                     IN  IF key \notin DOMAIN blocks
                         THEN Raise("KeyError") /\ UNCHANGED <<blocks, lvl>>
                         ELSE /\ blocks' = [blocks EXCEPT ![key] = @ + 1]
                              /\ lvl' = lvl + 1
                              /\ UNCHANGED <<pc, exc>>
    /\ UNCHANGED <<arena_size, remaining, partition, workables, workable,
                   distribution_sz, mid, dist, idx_tree>>

Next == Entry \/ ScanStep \/ Pick \/ TreeStep \/ WhileTest \/ ForStep

Spec == Init /\ [][Next]_vars

(* ------------------------- derived predicates ------------------------- *)
Returned == pc = "returned"
Raised == pc = "raised"
Finished == Returned \/ Raised

\* the count the result gives a size; a size that is no key counts as 0
Count(s) == IF s \in DOMAIN blocks THEN blocks[s] ELSE 0

RECURSIVE Total(_)
Total(i) ==
    IF i > Len(BLOCK_SIZES) THEN 0
    ELSE BLOCK_SIZES[i] * Count(BLOCK_SIZES[i]) + Total(i + 1)

MemberSet == {workable[i] : i \in 1 .. Len(workable)}

\* a candidate has been selected (line 50 has run without raising)
Selected == pc \in {"tree", "while", "for"}
            \/ (Raised /\ exc \in {"KeyError", "TypeError"})

\* idx_tree is complete (the loop of lines 62-73 is over)
TreeBuilt == pc \in {"while", "for"}
             \/ (Raised /\ exc \in {"KeyError", "TypeError"})

\* the indices of idx_tree in visit order, None skipped
RECURSIVE Flatten(_, _)
Flatten(t, i) ==
    IF i > Len(t) THEN <<>>
    ELSE t[i][1] \o t[i][2] \o Flatten(t, i + 1)

VisitOrder == Flatten(idx_tree, 1)

(* ------------------------------ claims -------------------------------- *)

\* C1 (exactness): every call with arena_size > 0 ends by returning a
\* result whose blocks and gap add up to the arena:
\* sum of size * count[size] over the block sizes + gap = arena_size.
C1_Exactness ==
    (Finished /\ arena_size > 0)
        => (Returned /\ Total(1) + remaining = arena_size)

\* C2 (termination): every call with arena_size > 0 finishes by returning
\* a result; it never ends in another way.
C2_Termination ==
    (arena_size > 0 /\ ~ENABLED Next) => Returned

\* C3 (gap bound): the result of a call with arena_size > 0 has a gap below
\* the smallest member of the selected candidate, and a gap equal to the
\* arena when the candidate has no member.
C3_GapBound ==
    (Finished /\ arena_size > 0)
        => /\ Returned
           /\ IF workable # <<>>
              THEN remaining < SeqMin(workable)
              ELSE remaining = arena_size

\* C4 (coverage): every block size is a key of the returned mapping, and
\* below the smallest block size all six sizes map to 0.
C4_Coverage ==
    Returned
        => /\ BlockSet \subseteq DOMAIN blocks
           /\ (arena_size < SeqMin(BLOCK_SIZES)
                  => \A s \in BlockSet : Count(s) = 0)

\* C5 (walk result, not largest-first): the returned counts are those of
\* the walk: a size outside the selected candidate has count 0, and for
\* arena_size = 2048 the result has gap 0 and is not two 1024-blocks.
C5_WalkResult ==
    (Finished /\ arena_size >= SeqMin(BLOCK_SIZES))
        => /\ Returned
           /\ \A s \in BlockSet \ MemberSet : Count(s) = 0
           /\ (arena_size = 2048 => (remaining = 0 /\ Count(1024) # 2))

\* C6 (valid early exit): once the scan over partition is over, an arena of
\* at least the smallest block size has a scored candidate with at least one
\* member, and the selection does not fail.
C6_CandidateExists ==
    (arena_size >= SeqMin(BLOCK_SIZES) /\ pc \notin {"entry", "scan"})
        => /\ workables # <<>>
           /\ \E k \in 1 .. Len(workables) : workables[k][1] # <<>>
           /\ ~(Raised /\ exc = "ValueError")

\* C7 (1 MiB scenario): for arena_size = 1048576 the result gives each of the
\* six sizes a count of at least 1, and no count is above 4 times another.
C7_Balanced ==
    (Finished /\ arena_size = 1048576)
        => /\ Returned
           /\ \A s \in BlockSet : Count(s) >= 1
           /\ \A s, t \in BlockSet : Count(s) <= 4 * Count(t)

\* C8 (invalid input): a call with arena_size <= 0 raises at its first
\* statement: no candidate is scored, no count is set and nothing is
\* returned.
C8_InvalidInput ==
    (arena_size <= 0 /\ pc # "entry")
        => /\ Raised
           /\ exc = "AssertionError"
           /\ workables = <<>>
           /\ blocks = EmptyDict
           /\ remaining = 0

C8_Witness == arena_size <= 0 /\ Raised /\ exc = "AssertionError"

\* C9 (visit order): once idx_tree is built, the indices it holds, in visit
\* order, are a permutation of 0 .. len(workable) - 1: each index of the
\* member list appears exactly once.
C9_VisitPermutation ==
    TreeBuilt
        => /\ Len(VisitOrder) = Len(workable)
           /\ {VisitOrder[i] : i \in 1 .. Len(VisitOrder)}
                  = 0 .. (Len(workable) - 1)

\* C10 (candidate choice): the selected candidate is one of the scored
\* candidates, no scored candidate has more members, every candidate scored
\* before it (at a larger partition) has fewer members, each member is at
\* most distribution_sz and len(workable) * distribution_sz <= arena_size.
C10_CandidateChoice ==
    Selected
        => /\ \E k \in 1 .. Len(workables) :
                 /\ workables[k] = <<workable, distribution_sz>>
                 /\ \A j \in 1 .. Len(workables) :
                        Len(workables[j][1]) <= Len(workable)
                 /\ \A j \in 1 .. (k - 1) :
                        Len(workables[j][1]) < Len(workable)
           /\ \A i \in 1 .. Len(workable) : workable[i] <= distribution_sz
           /\ Len(workable) * distribution_sz <= arena_size

\* a selection among several different candidates of maximal length
C10_Witness ==
    /\ Selected
    /\ \E j, k \in 1 .. Len(workables) :
          /\ j < k
          /\ Len(workables[j][1]) = Len(workable)
          /\ Len(workables[k][1]) = Len(workable)
          /\ workables[j] # workables[k]
          /\ workables[j] = <<workable, distribution_sz>>

=============================================================================
